---- MODULE Spec2Model ----
(***************************************************************************)
(* Model of scripts/download_nationalmap/create_nationalmap_mbtiles.py:    *)
(* the WMS tile downloader that fills an MBTiles archive (SQLite file)     *)
(* through a pool of three fetch workers and one orchestrating thread.     *)
(*                                                                         *)
(* The archive is modelled as the durable file content (db) and the view   *)
(* of the open connection (conn): Python's sqlite3 runs DDL in autocommit  *)
(* and opens an implicit transaction before the first INSERT, which only   *)
(* conn.commit() makes durable; conn.close() does not commit.              *)
(* Times are fixed-point numbers in units of 1/JitterRes second.           *)
(***************************************************************************)
EXTENDS Integers, Sequences, FiniteSets, Bags, TLC

(* ---- bounds of the model ---- *)
MaxZoom == 3        \* zoom arguments are drawn from 0..MaxZoom
MaxTiles == 7       \* Spec: argument ranges enumerating at most MaxTiles tiles
BatchTiles == 16    \* SpecBatch: argument ranges of at most BatchTiles tiles
RangeTiles == 20    \* SpecZooms: argument ranges of at most RangeTiles tiles
MaxRuns == 2        \* runs of the script against the same output file
MaxBacklog == 1     \* finished futures the orchestrator has not yet consumed
MaxFailures == 2    \* fetches that end without a payload
NumBodies == 2      \* distinct non-empty response bodies the endpoint serves
MaxScript == 3      \* length of a mocked endpoint script (last entry repeats)
JitterRes == 2      \* resolution of random.uniform(0, 1): j / JitterRes
MaxProbeZoom == 10  \* SpecBounds: zoom levels whose tile rectangle is computed
MaxProbe == 5       \* SpecBounds: tiles looked at from either end of the enumeration

(* ---- program constants ---- *)
DefaultMaxRetries == 5      \* download_wms_tile(..., max_retries=5)
max_workers == 3            \* ThreadPoolExecutor(max_workers=3)
CommitEvery == 10           \* if pbar.n % 10 == 0
MercScale == 1000000        \* fixed-point scale of the Mercator fractions

VARIABLES
    file_exists,            \* os.path.exists(output_file)
    db,                     \* durable content of the archive file
    conn,                   \* content as seen through the open connection
    pc,                     \* position of the orchestrator
    resuming, min_zoom, max_zoom, zoom,
    tile_list,              \* pending tiles of the zoom level, as submitted
    next_task,              \* next work item of the executor's queue
    in_flight,              \* work items a worker thread is running
    results,                \* finished futures: index -> result
    yielded,                \* futures as_completed has handed out
    first_batch,            \* futures finished when as_completed was entered, not handed out
    done_order,             \* futures finished since, oldest first, not handed out
    tile_queue,             \* fetched tiles waiting for the main thread
    pbar_n, successful_tiles, total_tiles_processed,
    dup_log,                \* keys the run has printed as "Duplicate tile"
    wms_body,               \* body the endpoint currently serves
    failures,               \* fetches that returned None so far
    all_ok,                 \* no fetch of the current run returned None
    runs,                   \* runs started so far
    last_run,               \* arguments and outcome of the latest run
    rerun,                  \* the run repeats a completed, all-success run
    before,                 \* the tiles table of the file when the run started
    script, jitter, fetch_pc, fetched,  \* harness for download_wms_tile
    probe_in, probe,                    \* harness for the tile rectangle of a zoom level
    queue_lock,             \* the thread inside "with queue_lock", or Free
    threads                 \* work item -> where its worker is past the fetch, and its payload

vars == <<file_exists, db, conn, pc, resuming, min_zoom, max_zoom, zoom,
          tile_list, next_task, in_flight, results, yielded, first_batch,
          done_order, tile_queue, pbar_n, successful_tiles, total_tiles_processed, dup_log,
          wms_body, failures, all_ok, runs, last_run, rerun, before,
          script, jitter, fetch_pc, fetched, probe_in, probe, queue_lock, threads>>

poolVars == <<tile_list, next_task, in_flight, results, yielded, first_batch,
              done_order, tile_queue, pbar_n, successful_tiles, queue_lock, threads>>
argVars == <<resuming, min_zoom, max_zoom>>
envVars == <<wms_body, failures>>
histVars == <<runs, last_run, rerun, before>>
fetchVars == <<script, jitter, fetch_pc, fetched, probe_in, probe>>

Pow2(n) == 2 ^ n
Max(a, b) == IF a > b THEN a ELSE b
Min(a, b) == IF a < b THEN a ELSE b

(* ======================= download_wms_tile ======================= *)

Http(status, body) == [kind |-> "http", status |-> status, body |-> body]
Timeout == [kind |-> "Timeout", status |-> 0, body |-> 0]
ConnectionError == [kind |-> "ConnectionError", status |-> 0, body |-> 0]
OtherException == [kind |-> "Exception", status |-> 0, body |-> 0]

\* what requests.get can produce; body 0 is the empty body
Responses == {Http(200, b) : b \in 0..NumBodies}
             \cup {Http(429, 0), Http(404, 0), Timeout, ConnectionError, OtherException}

Scripts == UNION {[1..n -> Responses] : n \in 1..MaxScript}
Jitters == [1..DefaultMaxRetries -> 0..(JitterRes - 1)]

\* the endpoint answers request k with script[k], repeating its last entry
ResponseAt(s, k) == s[Min(k, Len(s))]

\* a backoff that does not grow: wait_time = 1 + random.uniform(0, 1)
WaitTimeFlat(attempt, j) == JitterRes + j

\* wait_time = (2 ** attempt) + random.uniform(0, 1)
WaitTime(attempt, j) == Pow2(attempt) * JitterRes + j

\* None is not the empty body (0)
None == -1

\* a loop that returns response.content of any HTTP 200, the empty body included
RECURSIVE AttemptLoopAny200(_, _, _, _, _)
AttemptLoopAny200(s, jit, retries, attempt, sleeps) ==
    IF attempt >= retries
    THEN [content |-> None, attempts |-> attempt, sleeps |-> sleeps]
    ELSE LET response == ResponseAt(s, attempt + 1)
             wait_time == WaitTime(attempt, jit[attempt + 1])
         IN  CASE response.kind = "http" /\ response.status = 200 ->
                    [content |-> response.body, attempts |-> attempt + 1, sleeps |-> sleeps]
               [] response.kind = "http" /\ response.status = 429 ->
                    AttemptLoopAny200(s, jit, retries, attempt + 1, Append(sleeps, wait_time))
               [] response.kind = "http" /\ response.status \notin {200, 429} ->
                    AttemptLoopAny200(s, jit, retries, attempt + 1, sleeps)
               [] response.kind \in {"Timeout", "ConnectionError"} ->
                    AttemptLoopAny200(s, jit, retries, attempt + 1,
                                      IF attempt < retries - 1 THEN Append(sleeps, wait_time)
                                                               ELSE sleeps)
               [] response.kind = "Exception" ->
                    [content |-> None, attempts |-> attempt + 1, sleeps |-> sleeps]

RECURSIVE AttemptLoop(_, _, _, _, _)
AttemptLoop(s, jit, retries, attempt, sleeps) ==
    IF attempt >= retries
    THEN [content |-> None, attempts |-> attempt, sleeps |-> sleeps]
    ELSE LET response == ResponseAt(s, attempt + 1)
             wait_time == WaitTime(attempt, jit[attempt + 1])
         IN  CASE response.kind = "http" /\ response.status = 200 /\ response.body > 0 ->
                    [content |-> response.body, attempts |-> attempt + 1, sleeps |-> sleeps]
               [] response.kind = "http" /\ response.status = 429 ->
                    AttemptLoop(s, jit, retries, attempt + 1, Append(sleeps, wait_time))
               [] response.kind = "http" /\ response.status # 429
                    /\ ~(response.status = 200 /\ response.body > 0) ->
                    AttemptLoop(s, jit, retries, attempt + 1, sleeps)
               [] response.kind \in {"Timeout", "ConnectionError"} ->
                    AttemptLoop(s, jit, retries, attempt + 1,
                                IF attempt < retries - 1 THEN Append(sleeps, wait_time)
                                                         ELSE sleeps)
               [] response.kind = "Exception" ->
                    [content |-> None, attempts |-> attempt + 1, sleeps |-> sleeps]

\* for attempt in range(max_retries + 1)
download_wms_tile_extra(s, jit, max_retries) ==
    AttemptLoop(s, [k \in 1..(max_retries + 1) |-> jit[Min(k, max_retries)]],
                max_retries + 1, 0, <<>>)

download_wms_tile(s, jit, max_retries) == AttemptLoop(s, jit, max_retries, 0, <<>>)

ZeroJitter == [k \in 1..DefaultMaxRetries |-> 0]

\* bodies a fetch can return while the endpoint serves body b (None included)
ServedScripts(b) == {s \in Scripts : \A k \in 1..Len(s) :
                        s[k].kind = "http" /\ s[k].status = 200 => s[k].body \in {0, b}}
FetchContents == [b \in 1..NumBodies |->
                    {download_wms_tile(s, ZeroJitter, DefaultMaxRetries).content :
                        s \in ServedScripts(b)}]

(* ======================= coordinates ======================= *)

\* (1 - asinh(tan(lat)) / pi) / 2 of the four latitudes of the bounds, times MercScale
wide_bounds == [min_lat |-> 690252, max_lat |-> 572341, min_lon |-> -180, max_lon |-> 180]
narrow_bounds == [min_lat |-> 650319, max_lat |-> 600531, min_lon |-> 166, max_lon |-> 179]

deg2num(lat_frac, lon_deg, z) ==
    [xtile |-> ((lon_deg + 180) * Pow2(z)) \div 360,
     ytile |-> (lat_frac * Pow2(z)) \div MercScale]

current_bounds(z) == IF 1 <= z /\ z <= 9 THEN wide_bounds ELSE narrow_bounds

\* the rectangle of the four corners as deg2num returns them
TileRectUnclamped(z) ==
    LET b == current_bounds(z)
        lo == deg2num(b.min_lat, b.min_lon, z)
        hi == deg2num(b.max_lat, b.max_lon, z)
    IN  [x_min |-> lo.xtile, x_max |-> hi.xtile, y_min |-> hi.ytile, y_max |-> lo.ytile]

\* lines 134-140
TileRect(z) ==
    LET b == current_bounds(z)
        lo == deg2num(b.min_lat, b.min_lon, z)
        hi == deg2num(b.max_lat, b.max_lon, z)
    IN  [x_min |-> Max(0, lo.xtile), x_max |-> Min(Pow2(z) - 1, hi.xtile),
         y_min |-> Max(0, hi.ytile), y_max |-> Min(Pow2(z) - 1, lo.ytile)]

total_tiles_in_bounds(z) ==
    LET r == TileRect(z) IN (r.x_max - r.x_min + 1) * (r.y_max - r.y_min + 1)

\* for x in range(x_min, x_max + 1): for y in range(y_min, y_max + 1)
RectTiles(z) ==
    LET r == TileRect(z)
        h == r.y_max - r.y_min + 1
    IN  [k \in 1..total_tiles_in_bounds(z) |->
            <<z, r.x_min + ((k - 1) \div h), r.y_min + ((k - 1) % h)>>]

RECURSIVE TilesInRange(_, _)
TilesInRange(lo, hi) == IF lo > hi THEN 0 ELSE total_tiles_in_bounds(lo) + TilesInRange(lo + 1, hi)

\* command line arguments (min_zoom, max_zoom) enumerating at most cap tiles
ArgsUpTo(cap) == {a \in (0..MaxZoom) \X (0..MaxZoom) :
                    a[1] <= a[2] /\ TilesInRange(a[1], a[2]) <= cap}
Args == ArgsUpTo(MaxTiles)
\* those among them with a zoom level large enough for a periodic commit
CommitArgs(cap) == {a \in ArgsUpTo(cap) :
                        \E z \in a[1]..a[2] : total_tiles_in_bounds(z) >= CommitEvery}
BatchArgs == CommitArgs(BatchTiles)
RangeArgs == CommitArgs(RangeTiles)

(* ======================= the archive ======================= *)

\* the XYZ row stored as it is
tms_row_xyz(z, y) == y

\* tms_y = (2**zoom - 1) - y
tms_row(z, y) == (Pow2(z) - 1) - y

Row(z, x, tms_y, data) ==
    [zoom_level |-> z, tile_column |-> x, tile_row |-> tms_y, tile_data |-> data]

EmptyDb == [schema |-> FALSE, metadata |-> EmptyBag, tiles |-> EmptyBag]

HasKey(tiles, z, x, tms_y) ==
    \E r \in BagToSet(tiles) :
        r.zoom_level = z /\ r.tile_column = x /\ r.tile_row = tms_y

\* a lookup by the XYZ row, without the conversion to the TMS row
tile_exists_xyz(tiles, z, x, y) == HasKey(tiles, z, x, y)

\* SELECT 1 FROM tiles WHERE zoom_level=? AND tile_column=? AND tile_row=?
tile_exists(tiles, z, x, y) == HasKey(tiles, z, x, tms_row(z, y))

MetadataNames == {"name", "type", "version", "description", "format", "bounds",
                  "center", "minzoom", "maxzoom", "attribution"}

\* the ten (name, value) pairs; only minzoom and maxzoom depend on the arguments
metadata(lo, hi) ==
    SetToBag({<<n, 0>> : n \in MetadataNames \ {"minzoom", "maxzoom"}}
             \cup {<<"minzoom", lo>>, <<"maxzoom", hi>>})

\* an INSERT into a tiles table that has no unique index
InsertTileNoIndex(tiles, row) == [ok |-> TRUE, tiles |-> tiles (+) SetToBag({row})]

\* INSERT INTO tiles under the UNIQUE INDEX tile_index
InsertTile(tiles, row) ==
    IF HasKey(tiles, row.zoom_level, row.tile_column, row.tile_row)
    THEN [ok |-> FALSE, tiles |-> tiles]
    ELSE [ok |-> TRUE, tiles |-> tiles (+) SetToBag({row})]

RECURSIVE DrainQueue(_, _, _)
DrainQueue(q, tiles, log) ==
    IF q = <<>> THEN [tiles |-> tiles, log |-> log]
    ELSE LET ins == InsertTile(tiles, Head(q))
         IN  DrainQueue(Tail(q), ins.tiles,
                        IF ins.ok THEN log
                        ELSE log \cup {<<Head(q).zoom_level, Head(q).tile_column,
                                         Head(q).tile_row>>})

(* ======================= the orchestrator ======================= *)

\* line 166: queue_lock = threading.Lock(), unlocked; a locked lock is held by
\* the main thread or by the worker that runs work item i (i >= 1)
Free == 0
MainThread == -1

NoRun == [args |-> <<0, 0>>, completed |-> FALSE, all_ok |-> FALSE]
NotFetched == [content |-> None, attempts |-> 0, sleeps |-> <<>>]

InitRun ==
    /\ file_exists = FALSE
    /\ db = EmptyDb
    /\ conn = EmptyDb
    /\ pc = "idle"
    /\ resuming = FALSE /\ min_zoom = 0 /\ max_zoom = 0 /\ zoom = 0
    /\ tile_list = <<>> /\ next_task = 1 /\ in_flight = {}
    /\ results = <<>> /\ yielded = {} /\ first_batch = {} /\ done_order = <<>>
    /\ tile_queue = <<>>
    /\ queue_lock = Free /\ threads = <<>>
    /\ pbar_n = 0 /\ successful_tiles = 0 /\ total_tiles_processed = 0
    /\ dup_log = {}
    /\ wms_body = 1 /\ failures = 0 /\ all_ok = TRUE
    /\ runs = 0 /\ last_run = NoRun /\ rerun = FALSE /\ before = EmptyBag

NoProbe == [zoom |-> -1]

Init ==
    /\ InitRun
    /\ script = <<Http(200, 1)>> /\ jitter = ZeroJitter
    /\ fetch_pc = "idle" /\ fetched = NotFetched
    /\ probe_in = <<0, 1, FALSE>> /\ probe = NoProbe

ResetPool ==
    /\ tile_list' = <<>> /\ next_task' = 1 /\ in_flight' = {}
    /\ results' = <<>> /\ yielded' = {} /\ first_batch' = {} /\ done_order' = <<>>
    /\ tile_queue' = <<>>
    /\ queue_lock' = Free /\ threads' = <<>>
    /\ pbar_n' = 0 /\ successful_tiles' = 0

\* a run that never notices the existing file
NeverResuming(exists) == FALSE

\* line 86: resuming = os.path.exists(output_file)
Resuming(exists) == exists

\* lines 83-93 and the argument parser: sqlite3.connect creates the file
StartRun(argset) ==
    /\ pc = "idle" /\ fetch_pc = "idle"
    /\ runs < MaxRuns
    /\ \E a \in argset :
        /\ min_zoom' = a[1] /\ max_zoom' = a[2]
        /\ rerun' = (last_run.completed /\ last_run.all_ok /\ last_run.args = a)
        /\ last_run' = [args |-> a, completed |-> FALSE, all_ok |-> FALSE]
    /\ resuming' = Resuming(file_exists)
    /\ file_exists' = TRUE
    /\ conn' = db
    /\ before' = db.tiles
    /\ runs' = runs + 1
    /\ pc' = "schema"
    /\ zoom' = 0 /\ total_tiles_processed' = 0 /\ all_ok' = TRUE
    /\ dup_log' = {}
    /\ UNCHANGED <<db, poolVars, envVars, fetchVars>>

\* lines 95-99: the three CREATE statements, durable at once (autocommit DDL)
CreateSchema ==
    /\ pc = "schema"
    /\ IF resuming
       THEN UNCHANGED <<db, conn>>
       ELSE /\ db' = [db EXCEPT !.schema = TRUE]
            /\ conn' = [conn EXCEPT !.schema = TRUE]
    /\ pc' = "metadata"
    /\ UNCHANGED <<file_exists, argVars, zoom, poolVars, total_tiles_processed,
                   dup_log, envVars, all_ok, histVars, fetchVars>>

\* lines 108-125: the metadata rows enter the connection's open transaction
InsertMetadata ==
    /\ pc = "metadata"
    /\ IF resuming
       THEN UNCHANGED conn
       ELSE conn' = [conn EXCEPT !.metadata = @ (+) metadata(min_zoom, max_zoom)]
    /\ pc' = "zoom"
    /\ zoom' = min_zoom
    /\ UNCHANGED <<file_exists, db, argVars, poolVars, total_tiles_processed,
                   dup_log, envVars, all_ok, histVars, fetchVars>>

\* the process ends: the connection and everything in memory are gone
EndRun(completed) ==
    /\ pc' = "idle"
    /\ conn' = EmptyDb
    /\ last_run' = IF completed /\ all_ok
                   THEN [last_run EXCEPT !.completed = TRUE, !.all_ok = TRUE]
                   ELSE NoRun
    /\ zoom' = 0 /\ total_tiles_processed' = 0 /\ all_ok' = TRUE
    /\ resuming' = FALSE /\ min_zoom' = 0 /\ max_zoom' = 0
    /\ ResetPool
    /\ UNCHANGED <<file_exists, db, dup_log, envVars, runs, rerun, before, fetchVars>>

\* an executor that starts a thread for every submitted work item
RunningUnbounded(flight, done, next, n) ==
    [in_flight |-> (flight \ done) \cup (next..n), next_task |-> n + 1]

\* The worker threads of the executor take the submitted work items in order,
\* a free thread taking the next item at once: the items running after the
\* item done has returned, given the items running before and the next item
Running(flight, done, next, n) ==
    LET free == max_workers - Cardinality(flight \ done)
        taken == Min(free, n - next + 1)
    IN  [in_flight |-> (flight \ done) \cup (next..(next + taken - 1)),
         next_task |-> next + taken]

\* a tile list that does not skip the existing tiles
PendingAll(tiles, z) == RectTiles(z)

\* a tile list whose loops stop one tile short of the rectangle
PendingShort(tiles, z) ==
    SelectSeq(SubSeq(RectTiles(z), 1, Len(RectTiles(z)) - 1),
              LAMBDA t : ~tile_exists(tiles, t[1], t[2], t[3]))

\* pending tiles of a zoom level: those tile_exists does not find (lines 143-150)
Pending(tiles, z) ==
    SelectSeq(RectTiles(z), LAMBDA t : ~tile_exists(tiles, t[1], t[2], t[3]))

\* lines 127-180: one iteration of the zoom loop up to the submission of the
\* work items; dups is the number of tiles submitted twice (0 in the script)
Submit(dups) ==
    /\ pc = "zoom" /\ zoom <= max_zoom
    /\ conn.schema
    /\ LET pending == Pending(conn.tiles, zoom)
       IN  IF Len(pending) = 0
           THEN /\ zoom' = zoom + 1
                /\ pc' = "zoom"
                /\ UNCHANGED poolVars
           ELSE /\ tile_list' = pending \o SubSeq(pending, 1, dups)
                /\ LET r == Running({}, {}, 1, Len(tile_list'))
                   IN  in_flight' = r.in_flight /\ next_task' = r.next_task
                /\ results' = <<>> /\ yielded' = {}
                /\ first_batch' = {} /\ done_order' = <<>>
                /\ tile_queue' = <<>>
                /\ queue_lock' = Free /\ threads' = <<>>
                /\ pbar_n' = 0 /\ successful_tiles' = 0
                /\ pc' = "submitted"
                /\ UNCHANGED zoom
    /\ UNCHANGED <<file_exists, db, conn, argVars, total_tiles_processed,
                   dup_log, envVars, all_ok, histVars, fetchVars>>

Enumerate == Submit(0)

\* the simulated race: the first pending tile is dispatched twice
EnumerateRace == Submit(1)

\* line 104 on a file without the tiles table: sqlite3.OperationalError ends the run
SchemaError ==
    /\ pc = "zoom" /\ zoom <= max_zoom
    /\ ~conn.schema
    /\ EndRun(FALSE)

(* ---- the worker pool (lines 168-180) ---- *)

PoolAlive == pc \in {"submitted", "wait", "drain", "locked", "commit"}

\* if tile_data: neither None nor an empty bytes object
Truthy(tile_data) == tile_data # None /\ tile_data # 0

\* a worker that writes its tile through the shared cursor instead of queueing it
download_tile_worker_inserting(i, tile_data) ==
    LET tile_args == tile_list[i]
        row == Row(tile_args[1], tile_args[2], tms_row(tile_args[1], tile_args[3]), tile_data)
    IN  /\ results' = results @@ (i :> Truthy(tile_data))
        /\ conn' = IF Truthy(tile_data)
                   THEN [conn EXCEPT !.tiles = InsertTile(@, row).tiles]
                   ELSE conn
        /\ UNCHANGED <<db, tile_queue>>

\* lines 168-176: download_tile_worker runs to its return; the append is under
\* queue_lock, and the worker has no statement on the connection or its cursor
download_tile_worker(i, tile_data) ==
    LET tile_args == tile_list[i]
        z == tile_args[1]
        x == tile_args[2]
        y == tile_args[3]
    IN  /\ IF Truthy(tile_data)
           THEN /\ tile_queue' = Append(tile_queue, Row(z, x, tms_row(z, y), tile_data))
                /\ results' = results @@ (i :> TRUE)
           ELSE /\ results' = results @@ (i :> FALSE)
                /\ UNCHANGED tile_queue
        /\ UNCHANGED <<db, conn>>

\* the future of work item i is set: as_completed's waiter, once installed,
\* records it in completion order
FutureDone(i) ==
    /\ done_order' = IF pc = "submitted" THEN done_order ELSE Append(done_order, i)
    /\ UNCHANGED first_batch

\* a worker's fetch ends with a payload
WorkerSucceeds ==
    /\ PoolAlive
    /\ Cardinality(DOMAIN results \ yielded) < MaxBacklog
    /\ \E i \in in_flight :
        \E tile_data \in FetchContents[wms_body] \ {None} :
            /\ download_tile_worker(i, tile_data)
            /\ FutureDone(i)
            /\ LET r == Running(in_flight, {i}, next_task, Len(tile_list))
               IN  in_flight' = r.in_flight /\ next_task' = r.next_task
    /\ UNCHANGED <<file_exists, pc, argVars, zoom, tile_list,
                   yielded, pbar_n, successful_tiles, total_tiles_processed,
                   dup_log, envVars, all_ok, histVars, fetchVars, queue_lock, threads>>

\* a worker's fetch ends without one
WorkerFails ==
    /\ PoolAlive
    /\ Cardinality(DOMAIN results \ yielded) < MaxBacklog
    /\ failures < MaxFailures
    /\ None \in FetchContents[wms_body]
    /\ \E i \in in_flight \ DOMAIN threads :
            /\ download_tile_worker(i, None)
            /\ FutureDone(i)
            /\ LET r == Running(in_flight, {i}, next_task, Len(tile_list))
               IN  in_flight' = r.in_flight /\ next_task' = r.next_task
    /\ failures' = failures + 1
    /\ all_ok' = FALSE
    /\ UNCHANGED <<file_exists, pc, argVars, zoom, tile_list,
                   yielded, pbar_n, successful_tiles, total_tiles_processed,
                   dup_log, wms_body, histVars, fetchVars, queue_lock, threads>>

\* line 182, first entry: as_completed collects the futures already finished
AsCompleted ==
    /\ pc = "submitted"
    /\ first_batch' = DOMAIN results
    /\ pc' = "wait"
    /\ UNCHANGED <<file_exists, db, conn, argVars, zoom, tile_list, next_task,
                   in_flight, results, yielded, done_order, tile_queue, pbar_n,
                   successful_tiles, total_tiles_processed, dup_log, envVars,
                   all_ok, histVars, fetchVars, queue_lock, threads>>

\* a loop in which the result of a failed work item raises: the run aborts
CountFutureRaising ==
    /\ pc = "wait"
    /\ \E i \in DOMAIN results \ yielded :
        /\ IF first_batch # {} THEN i \in first_batch ELSE i = Head(done_order)
        /\ IF results[i]
           THEN /\ first_batch' = first_batch \ {i}
                /\ done_order' = IF first_batch # {} THEN done_order ELSE Tail(done_order)
                /\ yielded' = yielded \cup {i}
                /\ successful_tiles' = successful_tiles + 1
                /\ pbar_n' = pbar_n + 1
                /\ pc' = "drain"
                /\ UNCHANGED <<file_exists, db, conn, argVars, zoom, tile_list, next_task,
                               in_flight, results, tile_queue, total_tiles_processed,
                               dup_log, envVars, all_ok, histVars, fetchVars,
                               queue_lock, threads>>
           ELSE EndRun(FALSE)

\* lines 182-185: as_completed hands out a finished future (those of the first
\* batch in any order, the later ones in completion order); count it, advance the bar
CountFuture ==
    /\ pc = "wait"
    /\ \E i \in DOMAIN results \ yielded :
        /\ IF first_batch # {}
           THEN /\ i \in first_batch
                /\ first_batch' = first_batch \ {i}
                /\ UNCHANGED done_order
           ELSE /\ i = Head(done_order)
                /\ done_order' = Tail(done_order)
                /\ UNCHANGED first_batch
        /\ yielded' = yielded \cup {i}
        /\ successful_tiles' = successful_tiles + (IF results[i] THEN 1 ELSE 0)
    /\ pbar_n' = pbar_n + 1
    /\ pc' = "drain"
    /\ UNCHANGED <<file_exists, db, conn, argVars, zoom, tile_list, next_task,
                   in_flight, results, tile_queue, total_tiles_processed,
                   dup_log, envVars, all_ok, histVars, fetchVars, queue_lock, threads>>

\* conn.commit(): the connection's pending rows become durable
Commit(durable, view) == [durable EXCEPT !.metadata = view.metadata, !.tiles = view.tiles]

\* lines 187-198: drain the queue under queue_lock, then commit every 10th future
DrainAndCommit ==
    /\ pc = "drain"
    /\ LET d == DrainQueue(tile_queue, conn.tiles, dup_log)
       IN  /\ conn' = [conn EXCEPT !.tiles = d.tiles]
           /\ dup_log' = d.log
    /\ tile_queue' = <<>>
    /\ db' = IF pbar_n % CommitEvery = 0 THEN Commit(db, conn') ELSE db
    /\ pc' = "wait"
    /\ UNCHANGED <<file_exists, argVars, zoom, tile_list, next_task, in_flight,
                   results, yielded, first_batch, done_order, pbar_n,
                   successful_tiles, total_tiles_processed, envVars, all_ok,
                   histVars, fetchVars, queue_lock, threads>>

\* a loop that leaves the zoom level after the first future it has processed
ZoomDoneEarly ==
    /\ pc = "wait"
    /\ yielded # {}
    /\ total_tiles_processed' = total_tiles_processed + successful_tiles
    /\ zoom' = zoom + 1
    /\ pc' = "zoom"
    /\ ResetPool
    /\ UNCHANGED <<file_exists, db, conn, argVars, dup_log, envVars, all_ok,
                   histVars, fetchVars>>

\* lines 182, 202-203: as_completed is exhausted, the pool shuts down
ZoomDone ==
    /\ pc = "wait"
    /\ yielded = 1..Len(tile_list)
    /\ total_tiles_processed' = total_tiles_processed + successful_tiles
    /\ zoom' = zoom + 1
    /\ pc' = "zoom"
    /\ ResetPool
    /\ UNCHANGED <<file_exists, db, conn, argVars, dup_log, envVars, all_ok,
                   histVars, fetchVars>>

\* lines 205-207: conn.close() without a commit drops the open transaction
Close ==
    /\ pc = "zoom" /\ zoom > max_zoom
    /\ EndRun(TRUE)

\* the process is interrupted (Ctrl-C, kill, power loss): only db survives
Crash ==
    /\ pc # "idle"
    /\ EndRun(FALSE)

\* the WMS starts serving another rendering of the map
Republish ==
    /\ fetch_pc = "idle"
    /\ wms_body < NumBodies
    /\ wms_body' = wms_body + 1
    /\ UNCHANGED <<file_exists, db, conn, pc, argVars, zoom, poolVars,
                   total_tiles_processed, dup_log, failures, all_ok, histVars,
                   fetchVars>>

Setup == CreateSchema \/ InsertMetadata

(* ---- the hand-off through tile_queue, statement by statement ---- *)

\* an acquire that does not wait for the holder to release
CanAcquireAlways(lock) == TRUE

\* lines 173, 188: "with queue_lock" blocks while another thread holds the lock
CanAcquire(lock) == lock = Free

\* the worker of work item i is at position at of download_tile_worker
At(i, at) == i \in DOMAIN threads /\ threads[i].at = at

Move(i, at) == threads' = [threads EXCEPT ![i].at = at]

\* lines 170-172: download_wms_tile returns a payload and the worker reaches
\* "with queue_lock"
WorkerFetched ==
    /\ PoolAlive
    /\ \E i \in in_flight \ DOMAIN threads :
        \E tile_data \in FetchContents[wms_body] \ {None} :
            /\ Truthy(tile_data)
            /\ threads' = threads @@ (i :> [at |-> "lock", tile_data |-> tile_data])
    /\ UNCHANGED <<file_exists, db, conn, pc, argVars, zoom, tile_list, next_task,
                   in_flight, results, yielded, first_batch, done_order, tile_queue,
                   pbar_n, successful_tiles, total_tiles_processed, dup_log,
                   envVars, all_ok, histVars, fetchVars, queue_lock>>

\* line 173: the worker enters the with-block
WorkerLocks ==
    /\ \E i \in DOMAIN threads :
        /\ At(i, "lock")
        /\ CanAcquire(queue_lock)
        /\ queue_lock' = i
        /\ Move(i, "append")
    /\ UNCHANGED <<file_exists, db, conn, pc, argVars, zoom, tile_list, next_task,
                   in_flight, results, yielded, first_batch, done_order, tile_queue,
                   pbar_n, successful_tiles, total_tiles_processed, dup_log,
                   envVars, all_ok, histVars, fetchVars>>

\* line 174: tile_queue.append((z, x, tms_y, tile_data))
WorkerAppends ==
    /\ \E i \in DOMAIN threads :
        /\ At(i, "append")
        /\ LET tile_args == tile_list[i]
               z == tile_args[1]
               x == tile_args[2]
               y == tile_args[3]
           IN  tile_queue' = Append(tile_queue,
                                    Row(z, x, tms_row(z, y), threads[i].tile_data))
        /\ Move(i, "unlock")
    /\ UNCHANGED <<file_exists, db, conn, pc, argVars, zoom, tile_list, next_task,
                   in_flight, results, yielded, first_batch, done_order,
                   pbar_n, successful_tiles, total_tiles_processed, dup_log,
                   envVars, all_ok, histVars, fetchVars, queue_lock>>

\* the worker leaves the with-block of lines 173-174
WorkerUnlocks ==
    /\ \E i \in DOMAIN threads :
        /\ At(i, "unlock")
        /\ queue_lock' = Free
        /\ Move(i, "return")
    /\ UNCHANGED <<file_exists, db, conn, pc, argVars, zoom, tile_list, next_task,
                   in_flight, results, yielded, first_batch, done_order, tile_queue,
                   pbar_n, successful_tiles, total_tiles_processed, dup_log,
                   envVars, all_ok, histVars, fetchVars>>

\* line 175: return True sets the future, and the thread takes the next work item
WorkerReturnsTrue ==
    /\ \E i \in DOMAIN threads :
        /\ At(i, "return")
        /\ results' = results @@ (i :> TRUE)
        /\ FutureDone(i)
        /\ LET r == Running(in_flight, {i}, next_task, Len(tile_list))
           IN  in_flight' = r.in_flight /\ next_task' = r.next_task
        /\ Move(i, "done")
    /\ UNCHANGED <<file_exists, db, conn, pc, argVars, zoom, tile_list,
                   yielded, tile_queue, pbar_n, successful_tiles,
                   total_tiles_processed, dup_log, envVars, all_ok, histVars,
                   fetchVars, queue_lock>>

\* line 188: the main thread enters the with-block
MainLocks ==
    /\ pc = "drain"
    /\ CanAcquire(queue_lock)
    /\ queue_lock' = MainThread
    /\ pc' = "locked"
    /\ UNCHANGED <<file_exists, db, conn, argVars, zoom, tile_list, next_task,
                   in_flight, results, yielded, first_batch, done_order, tile_queue,
                   pbar_n, successful_tiles, total_tiles_processed, dup_log,
                   envVars, all_ok, histVars, fetchVars, threads>>

\* lines 189-195: one iteration of "while tile_queue": pop(0) and INSERT
PopAndInsert ==
    /\ pc = "locked"
    /\ tile_queue # <<>>
    /\ LET d == DrainQueue(<<Head(tile_queue)>>, conn.tiles, dup_log)
       IN  /\ conn' = [conn EXCEPT !.tiles = d.tiles]
           /\ dup_log' = d.log
    /\ tile_queue' = Tail(tile_queue)
    /\ UNCHANGED <<file_exists, db, pc, argVars, zoom, tile_list, next_task,
                   in_flight, results, yielded, first_batch, done_order,
                   pbar_n, successful_tiles, total_tiles_processed,
                   envVars, all_ok, histVars, fetchVars, queue_lock, threads>>

\* line 189 on the empty queue: the loop ends and the with-block is left
MainUnlocks ==
    /\ pc = "locked"
    /\ tile_queue = <<>>
    /\ queue_lock' = Free
    /\ pc' = "commit"
    /\ UNCHANGED <<file_exists, db, conn, argVars, zoom, tile_list, next_task,
                   in_flight, results, yielded, first_batch, done_order, tile_queue,
                   pbar_n, successful_tiles, total_tiles_processed, dup_log,
                   envVars, all_ok, histVars, fetchVars, threads>>

\* lines 197-198: commit every 10th future
CommitEveryTenth ==
    /\ pc = "commit"
    /\ db' = IF pbar_n % CommitEvery = 0 THEN Commit(db, conn) ELSE db
    /\ pc' = "wait"
    /\ UNCHANGED <<file_exists, conn, argVars, zoom, tile_list, next_task,
                   in_flight, results, yielded, first_batch, done_order, tile_queue,
                   pbar_n, successful_tiles, total_tiles_processed, dup_log,
                   envVars, all_ok, histVars, fetchVars, queue_lock, threads>>

WorkerSteps ==
    WorkerFetched \/ WorkerLocks \/ WorkerAppends \/ WorkerUnlocks \/ WorkerReturnsTrue

MainSteps ==
    \/ Setup \/ Enumerate \/ AsCompleted \/ CountFuture
    \/ MainLocks \/ PopAndInsert \/ MainUnlocks \/ CommitEveryTenth
    \/ ZoomDone \/ Close


PoolSteps ==
    \/ WorkerSucceeds \/ AsCompleted \/ CountFuture \/ DrainAndCommit \/ ZoomDone
    \/ Close

RunSteps == Setup \/ Enumerate \/ PoolSteps

Interrupts == Crash \/ SchemaError

\* runs over at most MaxTiles tiles against an endpoint that may fail and change
Next == StartRun(Args) \/ RunSteps \/ Interrupts \/ WorkerFails \/ Republish

Spec == Init /\ [][Next]_vars

\* uninterrupted runs with the first pending tile of every zoom level dispatched
\* twice, against an endpoint that always answers HTTP 200 and may change
NextRace == StartRun(Args) \/ Setup \/ EnumerateRace \/ PoolSteps \/ Republish

SpecRace == Init /\ [][NextRace]_vars

\* interrupted and resumed runs over the zoom levels that reach a periodic
\* commit, against an endpoint that always answers HTTP 200 with the same body
NextBatch == StartRun(BatchArgs) \/ RunSteps \/ Interrupts

SpecBatch == Init /\ [][NextBatch]_vars

\* uninterrupted runs over ranges of zoom levels, against the same endpoint
NextZooms == StartRun(RangeArgs) \/ RunSteps

SpecZooms == Init /\ [][NextZooms]_vars

\* uninterrupted runs of one zoom level that is large enough to commit, repeated
NextRerun == StartRun(BatchArgs) \/ RunSteps

SpecRerun == Init /\ [][NextRerun]_vars

\* uninterrupted runs against an endpoint that may fail, with the threads
\* scheduled fairly: the main thread keeps running, and every fetch returns
\* (requests.get has timeout=30 and the retry loop is bounded)
NextLive == StartRun(Args) \/ RunSteps \/ WorkerFails

\* the same runs without an assumption on the scheduling
SpecRuns == Init /\ [][NextLive]_vars

SpecLive ==
    /\ Init /\ [][NextLive]_vars
    /\ WF_vars(RunSteps)
    /\ WF_vars(WorkerSucceeds \/ WorkerFails)

\* runs of one zoom level that has more tiles than the pool has threads
LockArgs == {a \in Args : a[1] = a[2] /\ total_tiles_in_bounds(a[1]) > max_workers}

\* uninterrupted runs in which the worker threads and the main thread interleave
\* at every statement that touches queue_lock or tile_queue, against an endpoint
\* that may fail
NextLock == StartRun(LockArgs) \/ MainSteps \/ WorkerSteps \/ WorkerFails

\* every thread that can run is eventually scheduled
SpecLock ==
    /\ Init /\ [][NextLock]_vars
    /\ WF_vars(MainSteps)
    /\ WF_vars(WorkerSteps \/ WorkerFails)

(* ---- download_wms_tile against a mocked endpoint ---- *)

InitFetch ==
    /\ InitRun
    /\ script \in Scripts /\ jitter \in Jitters
    /\ fetch_pc = "call" /\ fetched = NotFetched
    /\ probe_in = <<0, 1, FALSE>> /\ probe = NoProbe

\* the work item of the harness: the first tile of zoom level 1
FetchTile == RectTiles(1)[1]

\* lines 169-170: the worker unpacks its tile and calls download_wms_tile
FetchCall ==
    /\ fetch_pc = "call"
    /\ tile_list' = <<FetchTile>>
    /\ fetched' = download_wms_tile(script, jitter, DefaultMaxRetries)
    /\ fetch_pc' = "returned"
    /\ UNCHANGED <<file_exists, db, conn, pc, argVars, zoom, next_task, in_flight,
                   results, yielded, first_batch, done_order, tile_queue, pbar_n,
                   successful_tiles, total_tiles_processed, dup_log, envVars,
                   all_ok, histVars, script, jitter, probe_in, probe,
                   queue_lock, threads>>

\* lines 171-176: the worker queues the payload and returns
WorkerReturn ==
    /\ fetch_pc = "returned"
    /\ download_tile_worker(1, fetched.content)
    /\ fetch_pc' = "done"
    /\ UNCHANGED <<file_exists, pc, argVars, zoom, tile_list, next_task, in_flight,
                   yielded, first_batch, done_order, pbar_n, successful_tiles,
                   total_tiles_processed, dup_log, envVars, all_ok, histVars,
                   script, jitter, fetched, probe_in, probe, queue_lock, threads>>

NextFetch == FetchCall \/ WorkerReturn

SpecFetch == InitFetch /\ [][NextFetch]_vars

(* ---- the tile rectangle of a zoom level (lines 130-152) ---- *)

\* a zoom level, and a tile of its enumeration counted from the start or the end
InitBounds ==
    /\ InitRun
    /\ script = <<Http(200, 1)>> /\ jitter = ZeroJitter
    /\ fetch_pc = "probe" /\ fetched = NotFetched
    /\ probe_in \in (0..MaxProbeZoom) \X (1..MaxProbe) \X BOOLEAN
    /\ probe = NoProbe

\* lines 130-152 for zoom level probe_in[1], and one (x, y) of the two loops
EnumerateProbe ==
    /\ fetch_pc = "probe" /\ probe = NoProbe
    /\ LET z == probe_in[1]
           n == total_tiles_in_bounds(z)
           k == IF probe_in[3] THEN Max(1, n - probe_in[2] + 1) ELSE Min(n, probe_in[2])
       IN  probe' = [zoom |-> z, current_bounds |-> current_bounds(z),
                     rect |-> TileRect(z), total_tiles_in_bounds |-> n,
                     tile |-> RectTiles(z)[k]]
    /\ UNCHANGED <<file_exists, db, conn, pc, argVars, zoom, poolVars,
                   total_tiles_processed, dup_log, envVars, all_ok, histVars,
                   script, jitter, fetch_pc, fetched, probe_in>>

NextBounds == EnumerateProbe

SpecBounds == InitBounds /\ [][NextBounds]_vars

(* ======================= properties ======================= *)

KeyOfRow(r) == <<r.zoom_level, r.tile_column, r.tile_row>>
KeyOfTile(t) == <<t[1], t[2], tms_row(t[1], t[3])>>
Rows(tiles) == BagToSet(tiles)
HasRowKey(tiles, k) == HasKey(tiles, k[1], k[2], k[3])

UniqueKeys(tiles) ==
    \A r \in Rows(tiles) :
        /\ CopiesIn(r, tiles) = 1
        /\ \A r2 \in Rows(tiles) : KeyOfRow(r2) = KeyOfRow(r) => r2 = r

\* the row a key must hold after the queue q is drained into tiles: the one it
\* held before, or else the first one queued for it
FirstWriter(tiles, q, k) ==
    IF HasRowKey(tiles, k)
    THEN CHOOSE r \in Rows(tiles) : KeyOfRow(r) = k
    ELSE q[CHOOSE j \in 1..Len(q) :
                /\ KeyOfRow(q[j]) = k
                /\ \A h \in 1..(j - 1) : KeyOfRow(q[h]) # k]

DuplicateAttempt(tiles, q, j) ==
    \/ HasRowKey(tiles, KeyOfRow(q[j]))
    \/ \E h \in 1..(j - 1) : KeyOfRow(q[h]) = KeyOfRow(q[j])

\* C1: the key (zoom_level, tile_column, tile_row) is unique in the archive, in
\* the open connection and in the file; draining the queue keeps every row the
\* table held, gives a key queued twice (or already stored) the payload of its
\* first writer, prints the duplicate, and the run goes on to the next future.
C1_UniqueKey ==
    /\ [](UniqueKeys(conn.tiles) /\ UniqueKeys(db.tiles))
    /\ [][DrainAndCommit =>
            /\ pc' = "wait"
            /\ \A r \in Rows(conn.tiles) : r \in Rows(conn'.tiles)
            /\ \A j \in 1..Len(tile_queue) :
                /\ FirstWriter(conn.tiles, tile_queue, KeyOfRow(tile_queue[j]))
                        \in Rows(conn'.tiles)
                /\ DuplicateAttempt(conn.tiles, tile_queue, j)
                        => KeyOfRow(tile_queue[j]) \in dup_log']_vars

\* a duplicate was printed, its key holds one row, and the endpoint serves
\* another body than the one stored
C1_Witness ==
    /\ pc = "wait"
    /\ \E r \in Rows(conn.tiles) :
        /\ KeyOfRow(r) \in dup_log
        /\ r.tile_data # wms_body

Counted == {i \in yielded : results[i]}

\* C2: whenever a tile has been counted as successfully downloaded,
\* the store holds a record for its key.
C2_CountedIsInserted ==
    \A i \in Counted : HasRowKey(conn.tiles, KeyOfTile(tile_list[i]))

\* unfinished work items of the zoom level
Unfinished == (1..Len(tile_list)) \ DOMAIN results

\* C3: no tile is dispatched whose record the archive held when the run started,
\* no unfinished work item has a record in the store, and the file never holds
\* two records for one key.
C3_Resumable ==
    /\ \A i \in 1..Len(tile_list) : ~HasRowKey(before, KeyOfTile(tile_list[i]))
    /\ \A i \in Unfinished : ~HasRowKey(conn.tiles, KeyOfTile(tile_list[i]))
    /\ UniqueKeys(db.tiles)

\* a resumed run has dispatched the tiles the earlier run left out, and only those
C3_Witness ==
    /\ pc = "wait"
    /\ runs = 2
    /\ before # EmptyBag
    /\ Len(tile_list) = total_tiles_in_bounds(zoom) - BagCardinality(before)
    /\ yielded # {}

RowCount(tiles, z) ==
    BagCardinality(tiles) -
    BagCardinality([r \in {q \in Rows(tiles) : q.zoom_level # z} |-> CopiesIn(r, tiles)])

\* C4: when a run that repeats the arguments of a completed run whose fetches all
\* succeeded has processed its last zoom level, the file it leaves has, for every
\* zoom level, as many rows as the file had when it started.
C4_Idempotent ==
    [][(pc = "zoom" /\ zoom > max_zoom /\ rerun) =>
            \A z \in 0..MaxZoom : RowCount(db'.tiles, z) = RowCount(before, z)]_vars

\* the repeated run has ended and the file holds rows
C4_Witness ==
    /\ pc = "idle"
    /\ rerun /\ last_run.completed
    /\ runs = 2
    /\ db.tiles # EmptyBag
    /\ db.tiles = before

\* C5: when the run closes the archive after the last zoom level, every row the
\* connection holds, tiles and metadata, is in the file.
C5_FinalCommit ==
    [][Close => (db'.tiles = conn.tiles /\ db'.metadata = conn.metadata)]_vars

\* rows inserted through the connection and not yet committed
Uncommitted == BagCardinality(conn.tiles) - BagCardinality(db.tiles)

\* C6: at every point of a run at most one commit batch of inserted tiles is
\* uncommitted.
C6_CrashLoss == pc # "idle" => Uncommitted <= CommitEvery

MetaCount(meta, n) ==
    BagCardinality([m \in {q \in BagToSet(meta) : q[1] = n} |-> CopiesIn(m, meta)])

\* C7: once the creating run has completed, the file holds every metadata key
\* exactly once.
C7_MetadataOnce ==
    (pc = "idle" /\ runs >= 1 /\ last_run.completed) =>
        \A n \in MetadataNames : MetaCount(db.metadata, n) = 1

\* C8: a run started on an existing file changes neither the schema nor the
\* metadata, in the file or through its connection, and no step removes or
\* changes a committed tile row.
C8_ResumeFrame ==
    [][/\ db.tiles \sqsubseteq db'.tiles
       /\ runs >= 2 =>
            /\ db'.schema = db.schema
            /\ db'.metadata = db.metadata
            /\ (pc # "idle" /\ pc' # "idle") => conn'.metadata = conn.metadata]_vars

\* a run over other zoom levels than the run that created the file has inserted
\* tiles, and the file holds the rows and the metadata the first run committed
C8_Witness ==
    /\ runs = 2 /\ resuming
    /\ pc = "wait"
    /\ min_zoom = 2 /\ max_zoom = 3
    /\ before # EmptyBag /\ RowCount(before, 2) = 0
    /\ db.tiles = before
    /\ db.metadata = metadata(3, 3)
    /\ conn.metadata = db.metadata
    /\ BagCardinality(conn.tiles) > BagCardinality(before)

Always404 == \A k \in 1..Len(script) : script[k] = Http(404, 0)

\* C9: against an endpoint that always answers HTTP 404 the fetch makes one
\* attempt, sleeps never and returns no payload.
C9_FastFail ==
    (fetch_pc = "returned" /\ Always404) =>
        /\ fetched.attempts = 1
        /\ fetched.sleeps = <<>>
        /\ fetched.content = None

RateLimitedTwice ==
    /\ Len(script) = 3
    /\ script[1] = Http(429, 0) /\ script[2] = Http(429, 0)
    /\ script[3].kind = "http" /\ script[3].status = 200 /\ script[3].body > 0

\* C10: HTTP 429 twice, then HTTP 200 with a body: the fetch returns that body
\* after three attempts and two sleeps, the second longer than the first.
C10_RateLimitRecovery ==
    (fetch_pc = "returned" /\ RateLimitedTwice) =>
        /\ fetched.content = script[3].body
        /\ fetched.attempts = 3
        /\ Len(fetched.sleeps) = 2
        /\ fetched.sleeps[2] > fetched.sleeps[1]

\* the largest jitter before the first retry, the smallest before the second
C10_Witness ==
    /\ fetch_pc = "returned" /\ RateLimitedTwice
    /\ jitter[1] = JitterRes - 1 /\ jitter[2] = 0
    /\ fetched.attempts = 3
\* C11: at no time are more than three work items running in worker threads.
C11_BoundedParallelism == Cardinality(in_flight) <= max_workers

\* three fetches are running while a fourth pending tile waits for a free thread
C11_Witness ==
    /\ PoolAlive
    /\ Cardinality(in_flight) = max_workers
    /\ next_task <= Len(tile_list)
IsPrefix(p, q) == Len(p) <= Len(q) /\ SubSeq(q, 1, Len(p)) = p

\* C12: a step in which a worker's future completes changes neither the
\* connection's view nor the file and at most appends to the queue; while the
\* pool is alive the store changes only in the orchestrator's drain-and-commit
\* step (or is dropped when the process ends).
C12_SingleWriter ==
    [][/\ (DOMAIN results' # DOMAIN results /\ results' # <<>>) =>
            /\ conn' = conn /\ db' = db
            /\ IsPrefix(tile_queue, tile_queue')
            /\ pc' = pc
       /\ (PoolAlive /\ (conn' # conn \/ db' # db)) =>
            (pc = "drain" \/ pc' = "idle")]_vars

\* a worker has queued a tile while rows the orchestrator inserted are in the
\* store and other fetches are still running
C12_Witness ==
    /\ pc = "wait"
    /\ tile_queue # <<>>
    /\ conn.tiles # EmptyBag
    /\ in_flight # {}
InZoomLoop == pc \in {"zoom", "submitted", "wait", "drain"}

\* C13: inside the zoom loop the zoom level lies in min_zoom..max_zoom+1 and a
\* step keeps it or adds one; every submitted or queued tile is of the current
\* zoom level; and the step that moves to the next zoom level is taken only
\* when every work item has returned, the queue is empty and every successful
\* tile has its row in the store.
C13_ZoomOrder ==
    /\ [](InZoomLoop =>
            /\ min_zoom <= zoom /\ zoom <= max_zoom + 1
            /\ \A i \in 1..Len(tile_list) : tile_list[i][1] = zoom
            /\ \A j \in 1..Len(tile_queue) : tile_queue[j].zoom_level = zoom
            /\ (pc = "zoom" => in_flight = {} /\ tile_queue = <<>>))
    /\ [][(InZoomLoop /\ pc' # "idle") =>
            /\ zoom' \in {zoom, zoom + 1}
            /\ (zoom' = zoom + 1) =>
                /\ in_flight = {}
                /\ DOMAIN results = 1..Len(tile_list)
                /\ tile_queue = <<>>
                /\ \A i \in 1..Len(tile_list) :
                        results[i] => HasRowKey(conn.tiles, KeyOfTile(tile_list[i]))]_vars

\* fetches of a zoom level are running after the level before it was resolved
\* with one tile failed and the others in the store
C13_Witness ==
    /\ pc = "wait"
    /\ zoom > min_zoom
    /\ in_flight # {}
    /\ RowCount(conn.tiles, zoom - 1) = total_tiles_in_bounds(zoom - 1) - 1
    /\ RowCount(conn.tiles, zoom - 1) > 0
AllZoomsProcessed == pc = "zoom" /\ zoom > max_zoom

\* C14: a started run reaches the end of the zoom loop and ends there, whatever
\* fetches fail: the only step that ends a run is the close after the last zoom
\* level, and a work item that returned False has no row in the store.
C14_FailuresNeverAbort ==
    /\ (pc # "idle") ~> AllZoomsProcessed
    /\ AllZoomsProcessed ~> (pc = "idle")
    /\ [][(pc # "idle" /\ pc' = "idle") => AllZoomsProcessed]_vars
    /\ [](\A i \in DOMAIN results :
            ~results[i] => ~HasRowKey(conn.tiles, KeyOfTile(tile_list[i])))

\* the run has processed its last zoom level although a fetch failed
C14_Witness ==
    /\ AllZoomsProcessed
    /\ ~all_ok
    /\ BagCardinality(conn.tiles) < TilesInRange(min_zoom, max_zoom)
\* the row that the worker queued for work item i is still in the queue
InQueue(i) ==
    \E j \in 1..Len(tile_queue) :
        /\ tile_queue[j].zoom_level = tile_list[i][1]
        /\ tile_queue[j].tile_column = tile_list[i][2]
        /\ tile_queue[j].tile_row = (2 ^ tile_list[i][1] - 1) - tile_list[i][3]

\* the row of work item i has been written to the store
Put(i) == i \in DOMAIN results /\ results[i] /\ ~InQueue(i)

\* C15: every row of the store is the row of an XYZ tile of its zoom level's
\* rectangle with tile_row = (2^zoom - 1) - y; the existence check of a
\* submitted tile is true exactly when the row written for it is in the store;
\* and the conversion is its own inverse on 0..2^zoom-1.
C15_RowInversion ==
    /\ \A r \in Rows(conn.tiles) :
            LET rect == TileRect(r.zoom_level)
            IN  /\ r.tile_column \in rect.x_min..rect.x_max
                /\ \E y \in rect.y_min..rect.y_max :
                        r.tile_row = (2 ^ r.zoom_level - 1) - y
    /\ PoolAlive =>
            \A i \in 1..Len(tile_list) :
                tile_exists(conn.tiles, tile_list[i][1], tile_list[i][2], tile_list[i][3])
                    <=> Put(i)
    /\ \A z \in 0..MaxZoom : \A y \in 0..(2 ^ z - 1) :
            tms_row(z, y) \in 0..(2 ^ z - 1) /\ tms_row(z, tms_row(z, y)) = y

\* a tile whose stored row differs from its XYZ row is found by the existence
\* check while another tile of the zoom level is not
C15_Witness ==
    /\ pc = "wait"
    /\ \E i, k \in 1..Len(tile_list) :
        /\ Put(i)
        /\ tile_exists(conn.tiles, tile_list[i][1], tile_list[i][2], tile_list[i][3])
        /\ \E r \in Rows(conn.tiles) :
                KeyOfRow(r) = KeyOfTile(tile_list[i]) /\ r.tile_row # tile_list[i][3]
        /\ ~tile_exists(conn.tiles, tile_list[k][1], tile_list[k][2], tile_list[k][3])
Tier(z) == IF z \in 1..9 THEN wide_bounds ELSE narrow_bounds

\* C16: zoom levels 1..9 use the wide bounds and every other zoom level the
\* narrow bounds; the rectangle is the one of the tier's corners cut to
\* 0..2^zoom-1, and every enumerated tile has its column and row in that range.
C16_BoundsTier ==
    probe # NoProbe =>
        LET z == probe.zoom
            top == 2 ^ z - 1
            lo == deg2num(Tier(z).min_lat, Tier(z).min_lon, z)
            hi == deg2num(Tier(z).max_lat, Tier(z).max_lon, z)
        IN  /\ (z \in 1..9) <=> (probe.current_bounds = wide_bounds)
            /\ (z \notin 1..9) <=> (probe.current_bounds = narrow_bounds)
            /\ probe.rect.x_min = Max(0, lo.xtile) /\ probe.rect.x_max = Min(top, hi.xtile)
            /\ probe.rect.y_min = Max(0, hi.ytile) /\ probe.rect.y_max = Min(top, lo.ytile)
            /\ 0 <= probe.rect.x_min /\ probe.rect.x_min <= probe.rect.x_max
            /\ probe.rect.x_max <= top
            /\ 0 <= probe.rect.y_min /\ probe.rect.y_min <= probe.rect.y_max
            /\ probe.rect.y_max <= top
            /\ probe.tile[1] = z
            /\ probe.tile[2] \in probe.rect.x_min..probe.rect.x_max
            /\ probe.tile[3] \in probe.rect.y_min..probe.rect.y_max

\* the last tile of zoom level 9: the wide tier, its easternmost column cut from
\* 512 to 511
C16_Witness ==
    /\ probe # NoProbe
    /\ probe.zoom = 9 /\ probe_in[3] /\ probe_in[2] = 1
    /\ probe.current_bounds = wide_bounds
    /\ deg2num(wide_bounds.max_lat, wide_bounds.max_lon, 9).xtile = 512
    /\ probe.tile = <<9, 511, 353>>
Retryable == \A k \in 1..Len(script) :
                script[k] \in {Http(429, 0), Timeout, ConnectionError}

\* C17: a call of download_wms_tile returns, after at most max_retries
\* requests; when every request is answered by HTTP 429 or raises a timeout or
\* connection error it makes exactly max_retries requests and returns None.
C17_BoundedRetry ==
    /\ fetch_pc = "call" => ENABLED FetchCall
    /\ fetch_pc \in {"returned", "done"} =>
        /\ fetched.attempts \in 1..DefaultMaxRetries
        /\ Retryable => (fetched.attempts = DefaultMaxRetries /\ fetched.content = None)

\* five rate-limited requests, then no payload
C17_Witness ==
    /\ fetch_pc = "returned"
    /\ script = <<Http(429, 0)>>
    /\ fetched.attempts = DefaultMaxRetries /\ fetched.content = None
    /\ Len(fetched.sleeps) = DefaultMaxRetries
\* the script with every HTTP 429 replaced by a timeout
NetworkTwin(s) == [k \in 1..Len(s) |-> IF s[k] = Http(429, 0) THEN Timeout ELSE s[k]]

\* C18: with the same jitter, a fetch whose requests are rate limited makes as
\* many attempts and sleeps the same waits as the fetch whose requests time out
\* instead, the wait after the last attempt included.
C18_SameBackoff ==
    (fetch_pc = "returned" /\ Retryable) =>
        LET network == download_wms_tile(NetworkTwin(script), jitter, DefaultMaxRetries)
        IN  /\ fetched.attempts = network.attempts
            /\ fetched.sleeps = network.sleeps
\* C19: a fetch returns a payload only as the non-empty body of the HTTP 200
\* that answered its last request; the worker queues a row exactly when the
\* fetch returned a payload, and the row carries that payload.
C19_PayloadOnlyFrom200 ==
    /\ fetch_pc \in {"returned", "done"} =>
            (fetched.content # None =>
                /\ fetched.content > 0
                /\ ResponseAt(script, fetched.attempts) = Http(200, fetched.content))
    /\ fetch_pc = "done" =>
        /\ results[1] <=> (fetched.content # None)
        /\ tile_queue = IF fetched.content # None
                        THEN <<Row(FetchTile[1], FetchTile[2], 0, fetched.content)>>
                        ELSE <<>>
        /\ \A j \in 1..Len(tile_queue) : tile_queue[j].tile_data > 0

\* an HTTP 200 with an empty body, then one with a body: the second is queued
C19_Witness ==
    /\ fetch_pc = "done"
    /\ script = <<Http(200, 0), Http(200, 2)>>
    /\ fetched.attempts = 2
    /\ Len(tile_queue) = 1 /\ tile_queue[1].tile_data = 2
\* work items handed to a worker thread so far
Dispatched == in_flight \cup DOMAIN results

\* C20: while a zoom level is being downloaded, the tiles of its rectangle that
\* had no row when the run started are exactly the submitted work items, none
\* of them twice; a work item is handed to a worker at most once, and all of
\* them have been when the zoom level is left; no run prints a duplicate.
C20_ExactlyOnce ==
    /\ [](PoolAlive =>
            /\ \A i, k \in 1..Len(tile_list) : tile_list[i] = tile_list[k] => i = k
            /\ \A k \in 1..total_tiles_in_bounds(zoom) :
                    LET t == RectTiles(zoom)[k]
                    IN  (\E i \in 1..Len(tile_list) : tile_list[i] = t)
                            <=> ~HasKey(before, t[1], t[2], (2 ^ t[1] - 1) - t[3])
            /\ in_flight \cap DOMAIN results = {}
            /\ Dispatched = 1..(next_task - 1))
    /\ [](dup_log = {})
    /\ [][(pc = "wait" /\ pc' = "zoom") => DOMAIN results = 1..Len(tile_list)]_vars

\* a resumed run has fetched exactly the tiles its file lacked, without a duplicate
C20_Witness ==
    /\ runs = 2 /\ pc = "wait"
    /\ before # EmptyBag
    /\ Len(tile_list) = total_tiles_in_bounds(zoom) - RowCount(before, zoom)
    /\ yielded = 1..Len(tile_list)
    /\ BagCardinality(conn.tiles) = total_tiles_in_bounds(zoom)
    /\ dup_log = {}
\* the worker of work item i has appended its row to tile_queue
Appended(i) == i \in DOMAIN threads /\ threads[i].at \in {"unlock", "return", "done"}

\* the (z, x, tms_y, tile_data) tuple of work item i
RowOf(i) ==
    Row(tile_list[i][1], tile_list[i][2], tms_row(tile_list[i][1], tile_list[i][3]),
        threads[i].tile_data)

\* how often row r is in the queue, and how many rows of key k the queue and
\* the tiles table hold together
QueueCopies(r) == Cardinality({j \in 1..Len(tile_queue) : tile_queue[j] = r})
KeyCopies(k) ==
    Cardinality({j \in 1..Len(tile_queue) : KeyOfRow(tile_queue[j]) = k})
    + Cardinality({r \in Rows(conn.tiles) : KeyOfRow(r) = k})

\* every appended row is either waiting in the queue or in the tiles table,
\* once and with the worker's payload; nothing else of its key is anywhere,
\* and no INSERT of the drain has met an existing row
HandedOffOnce ==
    /\ dup_log = {}
    /\ \A i \in 1..Len(tile_list) :
        IF Appended(i)
        THEN /\ QueueCopies(RowOf(i)) + CopiesIn(RowOf(i), conn.tiles) = 1
             /\ KeyCopies(KeyOfTile(tile_list[i])) = 1
        ELSE KeyCopies(KeyOfTile(tile_list[i])) = 0
    /\ \A j \in 1..Len(tile_queue) :
        \E i \in 1..Len(tile_list) : Appended(i) /\ tile_queue[j] = RowOf(i)

\* the threads inside a "with queue_lock" block
InBlock ==
    {i \in DOMAIN threads : threads[i].at \in {"append", "unlock"}}
    \cup (IF pc = "locked" THEN {MainThread} ELSE {})

\* at most one thread is inside a block, and it is the holder of the lock
LockDiscipline == InBlock = (IF queue_lock = Free THEN {} ELSE {queue_lock})

\* the queue changes only in a step of the thread that holds the lock and keeps
\* it: a worker appends its own row, the main thread pops the head and inserts it
QueueUnderLock ==
    tile_queue' # tile_queue =>
        /\ queue_lock # Free /\ queue_lock' = queue_lock
        /\ IF queue_lock = MainThread
           THEN /\ tile_queue' = Tail(tile_queue)
                /\ conn'.tiles = conn.tiles (+) SetToBag({Head(tile_queue)})
           ELSE /\ tile_queue' = Append(tile_queue, RowOf(queue_lock))
                /\ conn' = conn

\* when the pool shuts down the queue is empty, the lock is free, every worker
\* has returned and every appended row is in the tiles table
ShutdownClean ==
    ZoomDone =>
        /\ tile_queue = <<>> /\ queue_lock = Free /\ in_flight = {}
        /\ \A i \in DOMAIN threads :
            threads[i].at = "done" /\ CopiesIn(RowOf(i), conn.tiles) = 1

\* the lock is free, no worker waits for it and the queue is empty
HandOffQuiet ==
    /\ queue_lock = Free
    /\ tile_queue = <<>>
    /\ \A i \in DOMAIN threads : threads[i].at # "lock"

\* C21: the hand-off through tile_queue loses and duplicates nothing under any
\* interleaving of the worker threads and the main thread: every row a worker
\* appends is popped and inserted exactly once, the queue is touched only by the
\* holder of queue_lock, the queue is empty when the pool of the zoom level
\* shuts down, and the lock never deadlocks: whenever the lock is held, a worker
\* waits for it or the queue is filled, the threads reach a state in which the
\* lock is free, nobody waits and the queue is drained.
C21_QueueHandOff ==
    /\ [](HandedOffOnce /\ LockDiscipline)
    /\ [][QueueUnderLock /\ ShutdownClean]_vars
    /\ ~HandOffQuiet ~> HandOffQuiet

\* the main thread is draining under the lock, one row is already inserted and
\* another still queued, while a worker with a payload waits for the lock
C21_Witness ==
    /\ pc = "locked" /\ queue_lock = MainThread
    /\ tile_queue # <<>>
    /\ \E i, j \in DOMAIN threads :
        /\ At(i, "lock")
        /\ At(j, "done") /\ CopiesIn(RowOf(j), conn.tiles) = 1
====
